---- MODULE Spec2Model ----
(***************************************************************************)
(* Model of the analyser_v2 task-iteration engine:                         *)
(*   TodoManager (progress tracker), the agent tools get_current_todo /    *)
(*   save_result / get_all_results that reach it through the ContextVar    *)
(*   todo_manager_var, and the two controllers that drive it:              *)
(*   AnalyserAgent._run_async_impl ("web") and run_analysis ("cli").       *)
(*                                                                         *)
(* A request is a coroutine; an action of the model is the code between    *)
(* two suspension points (an await on an agent run), or one tool call made *)
(* by the agent while the controller is suspended on it.                   *)
(***************************************************************************)
EXTENDS Integers, Sequences, FiniteSets, TLC

VARIABLES
    managers,     \* TodoManager objects, one per request: todo_list, current_index, results, user_requirement
    slot,         \* todo_manager_var: value of the ContextVar in each context
    tokenOld,     \* Token.old_value returned by todo_manager_var.set, per request
    mode,         \* entry point of the request: "web" (_run_async_impl) or "cli" (run_analysis)
    pc,           \* position of each request's coroutine
    start_index,  \* local start_index of the item loop
    current,      \* local current (TodoItem snapshot) of the item loop
    attempt,      \* local attempt of the retry loop (0-based)
    reply,        \* value returned by the last tool call made in the request's flow
    turnReports,  \* save_result calls made in the running processor invocation
    iterReports,  \* save_result calls made since the start of the current loop iteration
    capReports,   \* save_result calls made by the processor during the request
    faults,       \* processor invocations that raised during the request
    invocations,  \* processor invocations started during the request
    iterations,   \* item-loop iterations started during the request
    events,       \* the latest progress events the controller has emitted (yield Event / print), in order
    has_messages, \* hasattr(ctx, "messages") of the request's invocation context
    messages,     \* ctx.messages: the in-flight instruction log
    log_mark,     \* length of ctx.messages when the running attempt began
    target_files,   \* value returned by get_target_files, and the calls, since the last write
    parse_input,    \* raw_output handed to parse_todo_list, as lines of characters
    parse_output,   \* list returned by parse_todo_list
    documents,      \* rows returned by get_all_documents: (file_name, tokens of content)
    query,          \* tokens of the query handed to bm25_search
    search_n,       \* n handed to bm25_search
    search_results, \* what bm25_search returned or raised
    workflow,       \* SequentialAgent being run: "planner" (planner_agent) or "executor" (execution_agent)
    stage,          \* sub-agent the workflow is running
    loop_pass,      \* iteration of the workflow's loop, counted from 1
    loop_exit,      \* exit signal of the loop: set by exit_loop_action
    criticism,      \* session state key criticism, and the pass in which it was written
    stage_runs,     \* runs of a loop stage started since the workflow began
    table,          \* committed rows of the documents table, in insertion order
    transaction,    \* rows inserted on the import connection and not committed
    data,           \* list returned by scan_mindmap_folder
    reload_pc,      \* position of import_mindmap.main
    listing         \* what the last store query returned

\* state of one analysis request
ctlVars == <<managers, slot, tokenOld, mode, pc, start_index, current, attempt, reply,
             turnReports, iterReports, capReports, faults, invocations, iterations,
             events, has_messages, messages, log_mark>>

\* what a request shows of itself: its event stream and its instruction log
obsVars == <<events, has_messages, messages, log_mark>>

\* state of the calls made outside a request's control flow
libVars == <<target_files, parse_input, parse_output, documents, query, search_n,
             search_results, workflow, stage, loop_pass, loop_exit, criticism, stage_runs,
             table, transaction, data, reload_pc, listing>>

\* the document store and the run of the import script
storeVars == <<table, transaction, data, reload_pc, listing>>

\* state of a planner or executor workflow
loopVars == <<workflow, stage, loop_pass, loop_exit, criticism, stage_runs>>

vars == <<managers, slot, tokenOld, mode, pc, start_index, current, attempt, reply,
          turnReports, iterReports, capReports, faults, invocations, iterations,
          events, has_messages, messages, log_mark,
          target_files, parse_input, parse_output, documents, query, search_n,
          search_results, workflow, stage, loop_pass, loop_exit, criticism, stage_runs,
          table, transaction, data, reload_pc, listing>>

(***************************************************************************)
(* Bounds of the model.                                                    *)
(***************************************************************************)
\* longest checklist the todo agent produces
MaxItems == 2
\* most save_result calls the processor makes in one invocation
MaxReports == 2

\* most outcomes recorded in a tracker that is driven operation by operation
MaxResults == 3

\* most lines in the text handed to parse_todo_list
MaxLines == 3

\* most rows get_all_documents returns
MaxDocs == 3

\* max_retries of the retry block
max_retries == 3

\* the counters that only record history saturate here, above every value the
\* properties compare them with
CounterCap == max_retries * MaxItems + 1
Bump(n) == IF n < CounterCap THEN n + 1 ELSE n

Requests == {1, 2}
Unset == 0
Modes == {"web", "cli"}

Descriptions == {"d1", "d2"}
Requirements == {"q1"}
ForcedReason == "Agent failed or returned no result"

\* TodoItem(description, note) with processed = False
TodoItem(d, n) == [description |-> d, note |-> n, processed |-> FALSE]

\* AnalysisResult(file_name, is_target, reason)
AnalysisResult(f, t, why) == [file_name |-> f, is_target |-> t, reason |-> why]

NoItem == [description |-> "", note |-> "", processed |-> FALSE]

RECURSIVE SeqsUpTo(_, _)
SeqsUpTo(S, n) ==
    IF n = 0 THEN {<<>>}
    ELSE LET shorter == SeqsUpTo(S, n - 1)
         IN  shorter \cup {Append(s, x) : s \in {t \in shorter : Len(t) = n - 1}, x \in S}

\* checklists the parser can hand to set_todos
Checklists == SeqsUpTo({TodoItem(d, "n") : d \in Descriptions}, MaxItems)
SmallChecklists == SeqsUpTo({TodoItem("d1", "n")}, 1)

\* results the processor can pass to save_result
CapResults == {AnalysisResult("f1", TRUE, "r")}

(***************************************************************************)
(* TodoManager                                                             *)
(***************************************************************************)
\* TodoManager.__init__
TodoManagerInit ==
    [todo_list |-> <<>>, current_index |-> 0, results |-> <<>>, user_requirement |-> ""]

set_requirement(m, requirement) == [m EXCEPT !.user_requirement = requirement]

set_todos_keep_results(m, todos) == [m EXCEPT !.todo_list = todos, !.current_index = 0]

set_todos(m, todos) == [m EXCEPT !.todo_list = todos, !.current_index = 0, !.results = <<>>]

\* Optional[TodoItem]: the item, or NoItem for None
HasCurrent(m) == m.current_index < Len(m.todo_list)
get_current_todo(m) == IF HasCurrent(m) THEN m.todo_list[m.current_index + 1] ELSE NoItem

mark_done_bounded(m, result) ==
    IF m.current_index < Len(m.todo_list)
    THEN [m EXCEPT !.todo_list[m.current_index + 1].processed = TRUE,
                   !.results = Append(@, result),
                   !.current_index = @ + 1]
    ELSE [m EXCEPT !.current_index = @ + 1]

mark_done_wrap(m, result) ==
    [m EXCEPT !.todo_list = IF m.current_index < Len(m.todo_list)
                            THEN [@ EXCEPT ![m.current_index + 1].processed = TRUE]
                            ELSE @,
              !.results = Append(@, result),
              !.current_index = IF Len(m.todo_list) = 0 THEN 0
                                ELSE (@ + 1) % Len(m.todo_list)]

mark_done_noflag(m, result) ==
    [m EXCEPT !.results = Append(@, result),
              !.current_index = @ + 1]

mark_done(m, result) ==
    [m EXCEPT !.todo_list = IF m.current_index < Len(m.todo_list)
                            THEN [@ EXCEPT ![m.current_index + 1].processed = TRUE]
                            ELSE @,
              !.results = Append(@, result),
              !.current_index = @ + 1]

RECURSIVE TargetsOfNewestFirst(_)
TargetsOfNewestFirst(rs) ==
    IF rs = <<>> THEN <<>>
    ELSE IF Head(rs).is_target THEN TargetsOfNewestFirst(Tail(rs)) \o <<Head(rs).file_name>>
         ELSE TargetsOfNewestFirst(Tail(rs))

RECURSIVE TargetsOf(_)
TargetsOf(rs) ==
    IF rs = <<>> THEN <<>>
    ELSE IF Head(rs).is_target THEN <<Head(rs).file_name>> \o TargetsOf(Tail(rs))
         ELSE TargetsOf(Tail(rs))

get_target_files(m) == TargetsOf(m.results)

is_complete_eager(m) == m.current_index >= Len(m.todo_list) - 1

is_complete_strict(m) == m.current_index > Len(m.todo_list)

is_complete(m) == m.current_index >= Len(m.todo_list)

get_progress(m) == <<m.current_index, Len(m.todo_list)>>

(***************************************************************************)
(* The ContextVar and the tools                                            *)
(***************************************************************************)
CtxOfShared(r) == 1

\* the context a request's coroutine (and the tools its agents call) runs in:
\* a ContextVar holds one value per context, and every request is its own task
CtxOf(r) == r

NoReply == [kind |-> "none", text |-> "", n |-> 0, total |-> 0]
ErrorReply == [kind |-> "error", text |-> "", n |-> 0, total |-> 0]

\* what get_current_todo() returns for the manager found in the slot
TodoReply(m) ==
    IF HasCurrent(m)
    THEN [kind |-> "todo", text |-> get_current_todo(m).description, n |-> 0, total |-> 0]
    ELSE [kind |-> "complete", text |-> "", n |-> 0, total |-> 0]

SavedReply(m) ==
    [kind |-> "saved", text |-> "", n |-> get_progress(m)[1], total |-> get_progress(m)[2]]

ResultsReply(m) == [kind |-> "results", text |-> "", n |-> Len(m.results), total |-> 0]

\* get_all_results: except LookupError: return []
NoScopeResults == [kind |-> "results", text |-> "", n |-> 0, total |-> 0]

LookupGlobalFallback(r) == IF slot[CtxOf(r)] = Unset THEN 1 ELSE slot[CtxOf(r)]

\* todo_manager_var.get(): the manager id in the caller's context, Unset for LookupError
Lookup(r) == slot[CtxOf(r)]

ResetOnlyOnSuccess(r, raised) ==
    slot' = IF raised THEN slot ELSE [slot EXCEPT ![CtxOf(r)] = tokenOld[r]]

\* finally: todo_manager_var.reset(token), on the normal and on the raising exit
FinallyReset(r, raised) ==
    slot' = [slot EXCEPT ![CtxOf(r)] = tokenOld[r]]

(***************************************************************************)
(* Initial state: no request has started, the ContextVar is unset.         *)
(***************************************************************************)
NoTargets == [calls |-> 0, value |-> <<>>]
NoParse == [done |-> FALSE, todos |-> <<>>]
NoSearch == [status |-> "none", items |-> <<>>]
NoCriticism == [value |-> "unset", pass |-> 0]

\* no workflow has started
LoopIdle ==
    /\ workflow = "none"
    /\ stage = "idle"
    /\ loop_pass = 0
    /\ loop_exit = FALSE
    /\ criticism = NoCriticism
    /\ stage_runs = 0

\* the documents table is empty and the import script has not run
StoreIdle ==
    /\ table = <<>>
    /\ transaction = <<>>
    /\ data = <<>>
    /\ reload_pc = "idle"
    /\ listing = [query |-> "none", module |-> <<>>, value |-> <<>>]

\* nothing has been parsed, ranked or read yet
LibIdle ==
    /\ target_files = NoTargets
    /\ parse_input = <<>>
    /\ parse_output = NoParse
    /\ documents = <<>>
    /\ query = <<>>
    /\ search_n = 0
    /\ search_results = NoSearch
    /\ LoopIdle
    /\ StoreIdle

\* no request has started
CtlInit ==
    /\ managers = [r \in Requests |-> TodoManagerInit]
    /\ slot = [c \in Requests |-> Unset]
    /\ tokenOld = [r \in Requests |-> Unset]
    /\ mode = [r \in Requests |-> "web"]
    /\ pc = [r \in Requests |-> "idle"]
    /\ start_index = [r \in Requests |-> 0]
    /\ current = [r \in Requests |-> NoItem]
    /\ attempt = [r \in Requests |-> 0]
    /\ reply = [r \in Requests |-> NoReply]
    /\ turnReports = [r \in Requests |-> 0]
    /\ iterReports = [r \in Requests |-> 0]
    /\ capReports = [r \in Requests |-> 0]
    /\ faults = [r \in Requests |-> 0]
    /\ invocations = [r \in Requests |-> 0]
    /\ iterations = [r \in Requests |-> 0]
    /\ events = [r \in Requests |-> <<>>]
    /\ has_messages = [r \in Requests |-> FALSE]
    /\ messages = [r \in Requests |-> <<>>]
    /\ log_mark = [r \in Requests |-> 0]

Init == LibIdle /\ CtlInit

(***************************************************************************)
(* Controller steps                                                        *)
(***************************************************************************)
\* the model keeps the latest EventWindow events of the stream: the events of
\* one item (its start, a retry before each further attempt, the forced skip or
\* the fatal fault that closes it), and likewise the two events that end a run
EventWindow == max_retries + 1

\* yield Event(...) in _run_async_impl, print(...) in run_analysis
Emit(r, e) ==
    events' = [events EXCEPT ![r] =
                  IF Len(@) < EventWindow THEN Append(@, e) ELSE Append(Tail(@), e)]

\* Message(role="user", content=prompt_text): the task prompt of the first
\* attempt names the current item, the prompt of a retry is a fixed text
PromptText(k, item) == IF k > 0 THEN <<"retry">> ELSE <<"task", item.description>>
UserMessage(k, item) == [role |-> "user", content |-> PromptText(k, item)]

\* an entry the processor run adds to the log
AgentMessage == [role |-> "model", content |-> <<"reply">>]

\* manager = TodoManager(); token = todo_manager_var.set(manager); set_requirement
Start(r, md, requirement, hm) ==
    /\ pc[r] = "idle"
    /\ managers' = [managers EXCEPT ![r] = set_requirement(TodoManagerInit, requirement)]
    /\ tokenOld' = [tokenOld EXCEPT ![r] = slot[CtxOf(r)]]
    /\ slot' = [slot EXCEPT ![CtxOf(r)] = r]
    /\ mode' = [mode EXCEPT ![r] = md]
    /\ pc' = [pc EXCEPT ![r] = "todo_gen"]
    /\ UNCHANGED libVars
    /\ UNCHANGED <<start_index, current, attempt, reply, turnReports, iterReports,
                   capReports, faults, invocations, iterations>>
    /\ events' = [events EXCEPT ![r] = <<"checklist_generation">>]
    /\ has_messages' = [has_messages EXCEPT ![r] = hm /\ md = "web"]
    /\ messages' = [messages EXCEPT ![r] = <<>>]
    /\ UNCHANGED log_mark

\* the todo agent returns; its output is parsed and the tracker is seeded
TodoGenReturn(r, todos) ==
    /\ pc[r] = "todo_gen"
    /\ managers' = [managers EXCEPT ![r] = set_todos(@, todos)]
    /\ pc' = [pc EXCEPT ![r] = "loop"]
    /\ UNCHANGED libVars
    /\ UNCHANGED <<slot, tokenOld, mode, start_index, current, attempt, reply, turnReports,
                   iterReports, capReports, faults, invocations, iterations>>
    /\ Emit(r, "items_found")
    /\ UNCHANGED <<has_messages, messages, log_mark>>

\* the todo agent raises: the exception leaves the controller through finally
TodoGenFault(r) ==
    /\ pc[r] = "todo_gen"
    /\ pc' = [pc EXCEPT ![r] = "failed_todo"]
    /\ FinallyReset(r, TRUE)
    /\ UNCHANGED libVars
    /\ UNCHANGED <<managers, tokenOld, mode, start_index, current, attempt, reply, turnReports,
                   iterReports, capReports, faults, invocations, iterations>>
    /\ UNCHANGED obsVars

\* while not manager.is_complete(): start_index, current = ...
IterStart(r) ==
    /\ pc[r] = "loop"
    /\ ~is_complete(managers[r])
    /\ start_index' = [start_index EXCEPT ![r] = managers[r].current_index]
    /\ current' = [current EXCEPT ![r] = get_current_todo(managers[r])]
    /\ attempt' = [attempt EXCEPT ![r] = 0]
    /\ iterReports' = [iterReports EXCEPT ![r] = 0]
    /\ iterations' = [iterations EXCEPT ![r] = Bump(@)]
    /\ pc' = [pc EXCEPT ![r] = "attempt"]
    /\ UNCHANGED libVars
    /\ UNCHANGED <<managers, slot, tokenOld, mode, reply, turnReports, capReports, faults,
                   invocations>>
    /\ Emit(r, "item_start")
    /\ UNCHANGED <<has_messages, messages, log_mark>>

\* the loop condition fails: on to the summary stage
LoopExit(r) ==
    /\ pc[r] = "loop"
    /\ is_complete(managers[r])
    /\ pc' = [pc EXCEPT ![r] = "summary"]
    /\ reply' = [reply EXCEPT ![r] = NoReply]
    /\ UNCHANGED libVars
    /\ UNCHANGED <<managers, slot, tokenOld, mode, start_index, current, attempt, turnReports,
                   iterReports, capReports, faults, invocations, iterations>>
    /\ Emit(r, "summary")
    /\ UNCHANGED <<has_messages, messages, log_mark>>

\* one processor invocation is started (processor_agent.run_async / processor_runner.run_async)
AttemptStart(r) ==
    /\ pc[r] = "attempt"
    /\ pc' = [pc EXCEPT ![r] = "running"]
    /\ invocations' = [invocations EXCEPT ![r] = Bump(@)]
    /\ turnReports' = [turnReports EXCEPT ![r] = 0]
    /\ reply' = [reply EXCEPT ![r] = NoReply]
    /\ UNCHANGED libVars
    /\ UNCHANGED <<managers, slot, tokenOld, mode, start_index, current, attempt,
                   iterReports, capReports, faults, iterations>>
    /\ log_mark' = [log_mark EXCEPT ![r] = Len(messages[r])]
    /\ messages' = [messages EXCEPT ![r] =
                       IF has_messages[r] THEN Append(@, UserMessage(attempt[r], current[r]))
                       ELSE @]
    /\ UNCHANGED <<events, has_messages>>

(***************************************************************************)
(* Tool calls made by the processor while the controller awaits it         *)
(***************************************************************************)
\* save_result(file_name, is_target, reason)
CapReport(r, result) ==
    /\ pc[r] = "running"
    /\ turnReports[r] < MaxReports
    /\ IF Lookup(r) = Unset
       THEN /\ managers' = managers
            /\ reply' = [reply EXCEPT ![r] = ErrorReply]
       ELSE /\ managers' = [managers EXCEPT ![Lookup(r)] = mark_done(@, result)]
            /\ reply' = [reply EXCEPT ![r] = SavedReply(managers'[Lookup(r)])]
    /\ turnReports' = [turnReports EXCEPT ![r] = @ + 1]
    /\ iterReports' = [iterReports EXCEPT ![r] = Bump(@)]
    /\ capReports' = [capReports EXCEPT ![r] = Bump(@)]
    /\ UNCHANGED libVars
    /\ UNCHANGED <<slot, tokenOld, mode, pc, start_index, current, attempt, faults,
                   invocations, iterations>>
    /\ UNCHANGED obsVars

\* get_current_todo()
CapRead(r) ==
    /\ pc[r] = "running"
    /\ reply' = [reply EXCEPT ![r] =
                    IF Lookup(r) = Unset THEN ErrorReply ELSE TodoReply(managers[Lookup(r)])]
    /\ reply'[r] # reply[r]
    /\ UNCHANGED libVars
    /\ UNCHANGED <<managers, slot, tokenOld, mode, pc, start_index, current, attempt,
                   turnReports, iterReports, capReports, faults, invocations, iterations>>
    /\ UNCHANGED obsVars

\* the invocation ends without an exception: break out of the retry loop
CapReturn(r) ==
    /\ pc[r] = "running"
    /\ pc' = [pc EXCEPT ![r] = "watchdog"]
    /\ UNCHANGED libVars
    /\ UNCHANGED <<managers, slot, tokenOld, mode, start_index, current, attempt, reply,
                   turnReports, iterReports, capReports, faults, invocations, iterations>>
    /\ UNCHANGED obsVars

CanRetryOffByOne(md, k) == md = "web" /\ k < max_retries

\* except Exception: if attempt < max_retries - 1 (the retry block exists in
\* _run_async_impl only; run_analysis has no try around the invocation)
CanRetry(md, k) == md = "web" /\ k < max_retries - 1

\* if ctx.messages[-1].content == prompt_text: ctx.messages.pop()
PopIfLast(last, prompt_text) == last = prompt_text

\* the processor run adds an entry of its own to ctx.messages
CapAppend(r) ==
    /\ pc[r] = "running"
    /\ has_messages[r]
    /\ messages[r][Len(messages[r])] # AgentMessage
    /\ messages' = [messages EXCEPT ![r] = Append(@, AgentMessage)]
    /\ UNCHANGED libVars
    /\ UNCHANGED <<managers, slot, tokenOld, mode, pc, start_index, current, attempt, reply,
                   turnReports, iterReports, capReports, faults, invocations, iterations,
                   events, has_messages, log_mark>>

\* the invocation raises and is retried
CapFaultRetry(r) ==
    /\ pc[r] = "running"
    /\ CanRetry(mode[r], attempt[r])
    /\ attempt' = [attempt EXCEPT ![r] = @ + 1]
    /\ faults' = [faults EXCEPT ![r] = Bump(@)]
    /\ pc' = [pc EXCEPT ![r] = "attempt"]
    /\ UNCHANGED libVars
    /\ UNCHANGED <<managers, slot, tokenOld, mode, start_index, current, reply, turnReports,
                   iterReports, capReports, invocations, iterations>>
    /\ Emit(r, "retry")
    /\ messages' = [messages EXCEPT ![r] =
                       IF /\ has_messages[r]
                          /\ @ # <<>>
                          /\ PopIfLast(@[Len(@)].content, PromptText(attempt[r], current[r]))
                       THEN SubSeq(@, 1, Len(@) - 1)
                       ELSE @]
    /\ UNCHANGED <<has_messages, log_mark>>

\* the invocation raises and the exception leaves the controller through finally
CapFaultFatal(r) ==
    /\ pc[r] = "running"
    /\ ~CanRetry(mode[r], attempt[r])
    /\ faults' = [faults EXCEPT ![r] = Bump(@)]
    /\ pc' = [pc EXCEPT ![r] = "failed_item"]
    /\ FinallyReset(r, TRUE)
    /\ UNCHANGED libVars
    /\ UNCHANGED <<managers, tokenOld, mode, start_index, current, attempt, reply,
                   turnReports, iterReports, capReports, invocations, iterations>>
    /\ IF mode[r] = "web" THEN Emit(r, "fatal_fault") ELSE UNCHANGED events
    /\ UNCHANGED <<has_messages, messages, log_mark>>

ForcedResultAsTarget(item) == AnalysisResult(item.description, TRUE, ForcedReason)

\* AnalysisResult(file_name=current.description, is_target=False, reason=...)
ForcedResult(item) == AnalysisResult(item.description, FALSE, ForcedReason)

StalledInverted(m, start) == m.current_index # start

\* if manager.current_index == start_index
Stalled(m, start) == m.current_index = start

\* Watchdog: force-skip the item when the cursor did not move
Watchdog(r) ==
    /\ pc[r] = "watchdog"
    /\ managers' = [managers EXCEPT ![r] =
                       IF Stalled(@, start_index[r])
                       THEN mark_done(@, ForcedResult(current[r]))
                       ELSE @]
    /\ pc' = [pc EXCEPT ![r] = "loop"]
    /\ UNCHANGED libVars
    /\ UNCHANGED <<slot, tokenOld, mode, start_index, current, attempt, reply, turnReports,
                   iterReports, capReports, faults, invocations, iterations>>
    /\ IF Stalled(managers[r], start_index[r])
       THEN Emit(r, "forced_skip")
       ELSE UNCHANGED events
    /\ UNCHANGED <<has_messages, messages, log_mark>>

(***************************************************************************)
(* Summary stage                                                           *)
(***************************************************************************)
\* get_all_results(), called by the summarize agent
SumRead(r) ==
    /\ pc[r] = "summary"
    /\ reply[r] = NoReply
    /\ reply' = [reply EXCEPT ![r] =
                    IF Lookup(r) = Unset THEN NoScopeResults ELSE ResultsReply(managers[Lookup(r)])]
    /\ UNCHANGED libVars
    /\ UNCHANGED <<managers, slot, tokenOld, mode, pc, start_index, current, attempt,
                   turnReports, iterReports, capReports, faults, invocations, iterations>>
    /\ UNCHANGED obsVars

\* the summarize agent returns; targets are read and the request returns through finally
SummaryReturn(r) ==
    /\ pc[r] = "summary"
    /\ pc' = [pc EXCEPT ![r] = "done"]
    /\ FinallyReset(r, FALSE)
    /\ UNCHANGED libVars
    /\ UNCHANGED <<managers, tokenOld, mode, start_index, current, attempt, reply,
                   turnReports, iterReports, capReports, faults, invocations, iterations>>
    /\ Emit(r, "completed")
    /\ UNCHANGED <<has_messages, messages, log_mark>>

\* the summarize agent raises
SummaryFault(r) ==
    /\ pc[r] = "summary"
    /\ pc' = [pc EXCEPT ![r] = "failed_summary"]
    /\ FinallyReset(r, TRUE)
    /\ UNCHANGED libVars
    /\ UNCHANGED <<managers, tokenOld, mode, start_index, current, attempt, reply,
                   turnReports, iterReports, capReports, faults, invocations, iterations>>
    /\ UNCHANGED obsVars

(***************************************************************************)
(* Specifications                                                          *)
(***************************************************************************)
Final == {"done", "failed_todo", "failed_item", "failed_summary"}

\* one request, either entry point, full checklists
Next ==
    \/ \E md \in Modes, q \in Requirements : Start(1, md, q, FALSE)
    \/ \E todos \in Checklists : TodoGenReturn(1, todos)
    \/ TodoGenFault(1)
    \/ IterStart(1)
    \/ LoopExit(1)
    \/ AttemptStart(1)
    \/ \E res \in CapResults : CapReport(1, res)
    \/ CapRead(1)
    \/ CapReturn(1)
    \/ CapFaultRetry(1)
    \/ CapFaultFatal(1)
    \/ Watchdog(1)
    \/ SumRead(1)
    \/ SummaryReturn(1)
    \/ SummaryFault(1)

Spec == Init /\ [][Next]_vars

\* what the event loop and the agents guarantee once a request has started: the
\* controller takes its next step, and every agent run it awaits returns or raises
Progress ==
    \/ \E todos \in Checklists : TodoGenReturn(1, todos)
    \/ TodoGenFault(1)
    \/ IterStart(1)
    \/ LoopExit(1)
    \/ AttemptStart(1)
    \/ CapReturn(1)
    \/ CapFaultRetry(1)
    \/ CapFaultFatal(1)
    \/ Watchdog(1)
    \/ SummaryReturn(1)
    \/ SummaryFault(1)

FairSpec == Init /\ [][Next]_vars /\ WF_vars(Progress)

\* two requests running concurrently, each in its own task, on short checklists
NextIso ==
    \E r \in Requests :
        \/ \E md \in Modes, q \in Requirements : Start(r, md, q, FALSE)
        \/ \E todos \in SmallChecklists : TodoGenReturn(r, todos)
        \/ TodoGenFault(r)
        \/ IterStart(r)
        \/ LoopExit(r)
        \/ AttemptStart(r)
        \/ \E res \in CapResults : CapReport(r, res)
        \/ CapRead(r)
        \/ CapReturn(r)
        \/ CapFaultRetry(r)
        \/ CapFaultFatal(r)
        \/ Watchdog(r)
        \/ SumRead(r)
        \/ SummaryReturn(r)
        \/ SummaryFault(r)

SpecIso == Init /\ [][NextIso]_vars

\* one request through _run_async_impl, on a short checklist, whose context
\* carries an instruction log, the processor adding entries of its own
NextLog ==
    \/ \E q \in Requirements : Start(1, "web", q, TRUE)
    \/ \E todos \in SmallChecklists : TodoGenReturn(1, todos)
    \/ TodoGenFault(1)
    \/ IterStart(1)
    \/ LoopExit(1)
    \/ AttemptStart(1)
    \/ \E res \in CapResults : CapReport(1, res)
    \/ CapRead(1)
    \/ CapAppend(1)
    \/ CapReturn(1)
    \/ CapFaultRetry(1)
    \/ CapFaultFatal(1)
    \/ Watchdog(1)
    \/ SumRead(1)
    \/ SummaryReturn(1)
    \/ SummaryFault(1)

SpecLog == Init /\ [][NextLog]_vars

\* one request whose processor calls save_result at most once per invocation
NextOneReport ==
    \/ \E md \in Modes, q \in Requirements : Start(1, md, q, FALSE)
    \/ \E todos \in Checklists : TodoGenReturn(1, todos)
    \/ TodoGenFault(1)
    \/ IterStart(1)
    \/ LoopExit(1)
    \/ AttemptStart(1)
    \/ \E res \in CapResults : turnReports[1] = 0 /\ CapReport(1, res)
    \/ CapRead(1)
    \/ CapReturn(1)
    \/ CapFaultRetry(1)
    \/ CapFaultFatal(1)
    \/ Watchdog(1)
    \/ SumRead(1)
    \/ SummaryReturn(1)
    \/ SummaryFault(1)

SpecOneReport == Init /\ [][NextOneReport]_vars

(***************************************************************************)
(* Tool calls made in a context whose request has not started or has ended *)
(***************************************************************************)
OutOfScope(r) == pc[r] \in {"idle"} \cup Final

StrayFrame ==
    /\ UNCHANGED libVars
    /\ UNCHANGED <<slot, tokenOld, mode, pc, start_index, current, attempt, turnReports,
                   iterReports, capReports, faults, invocations, iterations, obsVars>>

\* save_result(file_name, is_target, reason)
StraySave(r, result) ==
    /\ OutOfScope(r)
    /\ IF Lookup(r) = Unset
       THEN /\ managers' = managers
            /\ reply' = [reply EXCEPT ![r] = ErrorReply]
       ELSE /\ Len(managers[Lookup(r)].results) < MaxResults
            /\ managers' = [managers EXCEPT ![Lookup(r)] = mark_done(@, result)]
            /\ reply' = [reply EXCEPT ![r] = SavedReply(managers'[Lookup(r)])]
    /\ StrayFrame

\* get_current_todo()
StrayRead(r) ==
    /\ OutOfScope(r)
    /\ reply' = [reply EXCEPT ![r] =
                    IF Lookup(r) = Unset THEN ErrorReply ELSE TodoReply(managers[Lookup(r)])]
    /\ UNCHANGED managers
    /\ StrayFrame

\* get_all_results()
StrayResults(r) ==
    /\ OutOfScope(r)
    /\ reply' = [reply EXCEPT ![r] =
                    IF Lookup(r) = Unset THEN NoScopeResults
                    ELSE ResultsReply(managers[Lookup(r)])]
    /\ UNCHANGED managers
    /\ StrayFrame

\* request 1 on a short checklist; the tools are also called in the context
\* of request 1 before it starts and after it ends, and in the context of
\* request 2, which never starts
NextStray ==
    \/ \E md \in Modes, q \in Requirements : Start(1, md, q, FALSE)
    \/ \E todos \in SmallChecklists : TodoGenReturn(1, todos)
    \/ TodoGenFault(1)
    \/ IterStart(1)
    \/ LoopExit(1)
    \/ AttemptStart(1)
    \/ \E res \in CapResults : CapReport(1, res)
    \/ CapRead(1)
    \/ CapReturn(1)
    \/ CapFaultRetry(1)
    \/ CapFaultFatal(1)
    \/ Watchdog(1)
    \/ SumRead(1)
    \/ SummaryReturn(1)
    \/ SummaryFault(1)
    \/ \E r \in Requests, res \in CapResults : StraySave(r, res)
    \/ \E r \in Requests : StrayRead(r)
    \/ \E r \in Requests : StrayResults(r)

SpecStray == Init /\ [][NextStray]_vars

(***************************************************************************)
(* Claims                                                                  *)
(***************************************************************************)
Cursor(r) == managers[r].current_index
Results(r) == managers[r].results
Items(r) == managers[r].todo_list
IsForced(res) == res.reason = ForcedReason
HasForced(r) == \E i \in 1..Len(Results(r)) : IsForced(Results(r)[i])
HasReported(r) == \E i \in 1..Len(Results(r)) : ~IsForced(Results(r)[i])

\* C1: in every reachable state of every request, the number of recorded
\* outcomes equals the cursor: len(results) == current_index.
OutcomesMatchCursor ==
    \A r \in Requests : Len(Results(r)) = Cursor(r)

\* C1 witness: a tracker holding both an outcome reported by the processor and a
\* forced skip of the controller
OutcomesMatchCursorWitness ==
    \E r \in Requests : Len(Results(r)) >= 2 /\ HasForced(r) /\ HasReported(r)

\* C2: in every reachable state 0 <= cursor <= len(items), whatever the
\* processor does (several save_result calls in one invocation, or a call
\* when no item is current).
CursorWithinItems ==
    \A r \in Requests : 0 <= Cursor(r) /\ Cursor(r) <= Len(Items(r))

\* C3: the watchdog step that ends an iteration appends exactly one outcome
\* (subject = the current item's description, verdict false) and moves the
\* cursor to start_index + 1 when the cursor still equals start_index, and
\* appends nothing when the cursor has moved.
WatchdogForcesSkip ==
    [][\A r \in Requests :
          (pc[r] = "watchdog" /\ pc'[r] = "loop") =>
              IF Cursor(r) = start_index[r]
              THEN /\ Len(Results(r)') = Len(Results(r)) + 1
                   /\ SubSeq(Results(r)', 1, Len(Results(r))) = Results(r)
                   /\ Results(r)'[Len(Results(r)')].file_name
                          = Items(r)[start_index[r] + 1].description
                   /\ Results(r)'[Len(Results(r)')].is_target = FALSE
                   /\ Cursor(r)' = start_index[r] + 1
              ELSE /\ Results(r)' = Results(r)
                   /\ Cursor(r)' = Cursor(r)]_vars

\* C3 witness: the watchdog has just forced a skip
WatchdogForcesSkipWitness ==
    \E r \in Requests :
        /\ pc[r] = "loop"
        /\ Results(r) # <<>>
        /\ IsForced(Results(r)[Len(Results(r))])
        /\ Cursor(r) = start_index[r] + 1

\* C4: when the processor never reports and never raises, the run reaches the
\* summary with cursor == n, n outcomes all with verdict false,
\* outcomes[i].subject == items[i].description, no target, and at most
\* max_retries invocations per item.
SilentProcessorAllSkipped ==
    \A r \in Requests :
        (pc[r] \in {"summary", "done"} /\ capReports[r] = 0 /\ faults[r] = 0) =>
            /\ Cursor(r) = Len(Items(r))
            /\ Len(Results(r)) = Len(Items(r))
            /\ \A i \in 1..Len(Results(r)) :
                   /\ Results(r)[i].is_target = FALSE
                   /\ Results(r)[i].file_name = Items(r)[i].description
            /\ get_target_files(managers[r]) = <<>>
            /\ invocations[r] <= max_retries * Len(Items(r))

\* C4 witness: a finished run over two items in which the processor stayed silent
SilentProcessorAllSkippedWitness ==
    \E r \in Requests :
        pc[r] = "done" /\ capReports[r] = 0 /\ faults[r] = 0 /\ Len(Items(r)) = 2

\* C5 (as claimed): when the third attempt raises, the exception propagates and
\* cursor and outcomes are what they were at the start of the iteration.
FatalFaultLeavesTrackerUntouched ==
    \A r \in Requests :
        (pc[r] = "failed_item" /\ mode[r] = "web") =>
            /\ attempt[r] = max_retries - 1
            /\ Cursor(r) = start_index[r]
            /\ Len(Results(r)) = start_index[r]

\* C5 (amended): when the third attempt raises, the exception propagates and the
\* controller itself records nothing: cursor and outcomes are those of the start
\* of the iteration extended by exactly the outcomes the processor reported
\* during the attempts, hence unchanged when it reported none.
FatalFaultKeepsOnlyReported ==
    \A r \in Requests :
        (pc[r] = "failed_item" /\ mode[r] = "web") =>
            /\ attempt[r] = max_retries - 1
            /\ Cursor(r) = start_index[r] + iterReports[r]
            /\ Len(Results(r)) = start_index[r] + iterReports[r]
            /\ \A i \in (start_index[r] + 1)..Len(Results(r)) : ~IsForced(Results(r)[i])

\* C5 witness: the second item raised on all three attempts without a report
FatalFaultKeepsOnlyReportedWitness ==
    \E r \in Requests :
        /\ pc[r] = "failed_item" /\ mode[r] = "web"
        /\ iterReports[r] = 0 /\ start_index[r] = 1 /\ Cursor(r) = 1

\* C6: in run_analysis a raising processor invocation is retried, and the
\* exception propagates only after the third failed attempt for the item.
CliFatalOnlyAfterThirdAttempt ==
    \A r \in Requests :
        (pc[r] = "failed_item" /\ mode[r] = "cli") => attempt[r] = max_retries - 1

\* C7: the item loop runs at most n iterations, each with at most max_retries
\* processor invocations, so at most max_retries * n invocations in total.
WorkBound ==
    \A r \in Requests :
        /\ iterations[r] <= Len(Items(r))
        /\ attempt[r] < max_retries
        /\ invocations[r] <= max_retries * Len(Items(r))

\* C7 witness: two items, each of them invoked three times
WorkBoundWitness ==
    \E r \in Requests :
        Len(Items(r)) = 2 /\ iterations[r] = 2 /\ invocations[r] = 2 * max_retries

\* C8: when every agent run returns or raises, a started request terminates:
\* it reaches the end of the summary or propagates a fatal fault.
EventuallyTerminates ==
    (pc[1] # "idle") ~> (pc[1] \in Final)

\* C8 witness: a run that finished although the processor stalled on an item
EventuallyTerminatesWitness ==
    pc[1] = "done" /\ HasForced(1) /\ is_complete(managers[1])

\* C9: on every exit of a request the ContextVar holds again the value it had
\* before the request started, and no longer the request's TodoManager.
TeardownOnEveryExit ==
    \A r \in Requests :
        pc[r] \in Final => (Lookup(r) = tokenOld[r] /\ Lookup(r) # r)

\* C9 witness: a request aborted by a fatal fault after outcomes were recorded
TeardownOnEveryExitWitness ==
    \E r \in Requests : pc[r] = "failed_item" /\ Results(r) # <<>>

ToolCall(a) ==
    \/ \E res \in CapResults : CapReport(a, res)
    \/ CapRead(a)
    \/ SumRead(a)

\* C10: a save_result, get_current_todo or get_all_results call made in request
\* A's flow reads and changes A's TodoManager only; the TodoManager of a
\* concurrent request B is unchanged by it.
RequestIsolation ==
    [][\A a \in Requests : \A b \in Requests \ {a} :
          ToolCall(a) =>
              /\ managers'[b] = managers[b]
              /\ reply'[a] \in {TodoReply(managers[a]), SavedReply(managers'[a]),
                                ResultsReply(managers[a])}]_vars

\* C10 witness: both requests are inside a processor invocation and one of them
\* has reported while the other's tracker is still at its first item
RequestIsolationWitness ==
    /\ pc[1] = "running" /\ pc[2] = "running"
    /\ turnReports[1] > 0 /\ Cursor(1) > 0
    /\ Cursor(2) = 0 /\ Results(2) = <<>>

\* C11: once the tracker has been seeded for the run, the cursor never
\* decreases from one state of the run to the next.
CursorNeverDecreases ==
    [][\A r \in Requests :
          pc[r] \notin {"idle", "todo_gen"} => Cursor(r)' >= Cursor(r)]_vars

\* C11 witness: a run whose cursor has advanced twice
CursorNeverDecreasesWitness ==
    \E r \in Requests : pc[r] = "loop" /\ Cursor(r) = 2 /\ Len(Items(r)) = 2

\* C12: the items marked processed are exactly those below the cursor, and a
\* processed flag, once true, is never set back to false.
ProcessedIsPrefix ==
    /\ [](\A r \in Requests : \A i \in 1..Len(Items(r)) :
             Items(r)[i].processed <=> (i - 1 < Cursor(r)))
    /\ [][\A r \in Requests : \A i \in 1..Len(Items(r)) :
             Items(r)[i].processed =>
                 (i <= Len(Items(r)') /\ Items(r)'[i].processed)]_vars

\* C12 witness: the first of two items is done, the second is not
ProcessedIsPrefixWitness ==
    \E r \in Requests :
        /\ Len(Items(r)) = 2 /\ Cursor(r) = 1
        /\ Items(r)[1].processed /\ ~Items(r)[2].processed

(***************************************************************************)
(* The TodoManager driven operation by operation (tracker 1), in any order *)
(***************************************************************************)
\* results a caller can hand to mark_done
TrkResults == {AnalysisResult(f, t, "r") : f \in {"f1", "f2"}, t \in BOOLEAN}

TrkFrame ==
    UNCHANGED <<slot, tokenOld, mode, pc, start_index, current, attempt, reply, turnReports,
                iterReports, capReports, faults, invocations, iterations, parse_input,
                parse_output, documents, query, search_n, search_results, loopVars,
                obsVars, storeVars>>

\* manager.set_requirement(requirement)
TrkSetRequirement(requirement) ==
    /\ managers[1].user_requirement # requirement
    /\ managers' = [managers EXCEPT ![1] = set_requirement(@, requirement)]
    /\ UNCHANGED target_files
    /\ TrkFrame

\* manager.set_todos(todos) with a list the caller has just built
TrkSeed(todos) ==
    /\ managers' = [managers EXCEPT ![1] = set_todos(@, todos)]
    /\ target_files' = NoTargets
    /\ TrkFrame

\* manager.set_todos(todos) with the list object passed before: it is the list
\* the manager holds, whose items mark_done has written
TrkReseed ==
    /\ managers[1].todo_list # <<>>
    /\ managers' = [managers EXCEPT ![1] = set_todos(@, @.todo_list)]
    /\ target_files' = NoTargets
    /\ TrkFrame

\* manager.mark_done(result)
TrkMarkDone(result) ==
    /\ Len(managers[1].results) < MaxResults
    /\ managers' = [managers EXCEPT ![1] = mark_done(@, result)]
    /\ target_files' = NoTargets
    /\ TrkFrame

\* manager.reset()
TrkReset ==
    /\ managers[1] # TodoManagerInit
    /\ managers' = [managers EXCEPT ![1] = TodoManagerInit]
    /\ target_files' = NoTargets
    /\ TrkFrame

\* manager.get_target_files()
TrkTargets ==
    /\ target_files.calls < 2
    /\ target_files' = [calls |-> target_files.calls + 1,
                        value |-> get_target_files(managers[1])]
    /\ UNCHANGED managers
    /\ TrkFrame

NextTracker ==
    \/ \E q \in Requirements : TrkSetRequirement(q)
    \/ \E todos \in Checklists : TrkSeed(todos)
    \/ TrkReseed
    \/ \E res \in TrkResults : TrkMarkDone(res)
    \/ TrkReset
    \/ TrkTargets

SpecTracker == Init /\ [][NextTracker]_vars

SeedStep == (\E todos \in Checklists : TrkSeed(todos)) \/ TrkReseed

\* the fields set_todos writes
Progress3(m) == <<m.todo_list, m.current_index, m.results>>

\* C13 (as claimed): after set_todos(items), whatever preceded it, cursor == 0,
\* outcomes is empty and the tracker equals a fresh tracker seeded with the
\* same items.
SeedEqualsFreshTracker ==
    [][SeedStep =>
          /\ Cursor(1)' = 0
          /\ Results(1)' = <<>>
          /\ managers'[1] = set_todos(TodoManagerInit, Items(1)')]_vars

\* C13 (amended): after set_todos(items), whatever preceded it, cursor == 0,
\* outcomes is empty, and items, cursor and outcomes equal those of a fresh
\* tracker seeded with the same items; seeding again with these items changes
\* nothing; user_requirement is left as it was.
SeedRestartsProgress ==
    [][SeedStep =>
          /\ Cursor(1)' = 0
          /\ Results(1)' = <<>>
          /\ Progress3(managers'[1]) = Progress3(set_todos(TodoManagerInit, Items(1)'))
          /\ set_todos(managers'[1], Items(1)') = managers'[1]
          /\ managers'[1].user_requirement = managers[1].user_requirement]_vars

\* C13 witness: a tracker seeded again after a partial run over the same items
SeedRestartsProgressWitness ==
    /\ Cursor(1) = 0 /\ Results(1) = <<>>
    /\ Len(Items(1)) = 2 /\ Items(1)[1].processed
    /\ managers[1].user_requirement = "q1"

IsTarget(res) == res.is_target
TargetResults(r) == SelectSeq(Results(r), IsTarget)

\* C14: get_target_files returns exactly the file names of the recorded
\* outcomes with is_target true, in outcome order, and leaves the tracker as it
\* was, so a second call with no write in between returns the same sequence.
TargetsAreTrueSubjectsInOrder ==
    [][TrkTargets =>
          /\ managers' = managers
          /\ Len(target_files'.value) = Len(TargetResults(1))
          /\ \A i \in 1..Len(TargetResults(1)) :
                 target_files'.value[i] = TargetResults(1)[i].file_name
          /\ (target_files.calls > 0 => target_files'.value = target_files.value)]_vars

\* C14 witness: a second call returned two targets in outcome order, a
\* non-target outcome lying between them
TargetsAreTrueSubjectsInOrderWitness ==
    /\ target_files.calls = 2
    /\ target_files.value = <<"f2", "f1">>
    /\ Len(Results(1)) = 3 /\ ~Results(1)[2].is_target

\* C17: when the parser yields an empty checklist the tracker is complete as
\* soon as it is seeded, no processor invocation and no forced skip happen, and
\* the run goes on to the summary with no outcome and no target instead of
\* failing on an item.
EmptyChecklistCompletesAtOnce ==
    \A r \in Requests :
        (pc[r] \notin {"idle", "todo_gen", "failed_todo"} /\ Items(r) = <<>>) =>
            /\ is_complete(managers[r])
            /\ pc[r] \in {"loop", "summary", "done", "failed_summary"}
            /\ iterations[r] = 0 /\ invocations[r] = 0
            /\ Results(r) = <<>>
            /\ get_target_files(managers[r]) = <<>>

\* C17 witness: a run over an empty checklist reached its end
EmptyChecklistCompletesAtOnceWitness ==
    \E r \in Requests : pc[r] = "done" /\ Items(r) = <<>> /\ invocations[r] = 0

(***************************************************************************)
(* parse_todo_list.  A text is a sequence of lines (the text split at       *)
(* newlines), a line a sequence of characters.  "K" stands for the keyword  *)
(* of the fallback test, "Q" for the opening quotation bracket, "F" for a   *)
(* code-fence marker (three backquotes) and "J" for the word json after it. *)
(***************************************************************************)
IsWs(c) == c = " "

\* first position >= i of line that holds no whitespace, Len(line) + 1 if none
RECURSIVE SkipWs(_, _)
SkipWs(line, i) ==
    IF i > Len(line) THEN Len(line) + 1
    ELSE IF IsWs(line[i]) THEN SkipWs(line, i + 1) ELSE i

\* str.strip()
RECURSIVE StripRight(_)
StripRight(line) ==
    IF line # <<>> /\ IsWs(line[Len(line)])
    THEN StripRight(SubSeq(line, 1, Len(line) - 1))
    ELSE line

Strip(line) == StripRight(SubSeq(line, SkipWs(line, 1), Len(line)))

\* .replace("```json", "")
RECURSIVE RemoveJsonFence(_)
RemoveJsonFence(line) ==
    IF line = <<>> THEN <<>>
    ELSE IF Len(line) >= 2 /\ line[1] = "F" /\ line[2] = "J"
         THEN RemoveJsonFence(SubSeq(line, 3, Len(line)))
         ELSE <<line[1]>> \o RemoveJsonFence(Tail(line))

\* .replace("```", "")
RECURSIVE RemoveFence(_)
RemoveFence(line) ==
    IF line = <<>> THEN <<>>
    ELSE IF line[1] = "F" THEN RemoveFence(Tail(line))
         ELSE <<line[1]>> \o RemoveFence(Tail(line))

\* a line of the loop: fence markers removed, then line.strip()
CleanLine(line) == Strip(RemoveFence(RemoveJsonFence(line)))

NoMatch == [ok |-> FALSE, description |-> <<>>, note |-> <<>>]

\* re.match(r'-\s*\[\s*\]\s*(.+?)\s*\|\s*(.+?)$', line) on a stripped line:
\* group 1 starts where the greedy \s* after the box ends (or, backtracking,
\* earlier in that whitespace) and is the shortest run followed by optional
\* whitespace, a separator and at least one more character; group 2 is the rest
PrimaryMatch(line) ==
    LET len == Len(line)
        b1 == SkipWs(line, 2)
        b2 == SkipWs(line, b1 + 1)
        first == b2 + 1
        greedy == SkipWs(line, first)
        Sep(k) == SkipWs(line, k)
        Valid(p, k) == Sep(k) < len /\ line[Sep(k)] = "|"
        Starts == {p \in first..greedy : \E k \in (p + 1)..len : Valid(p, k)}
    IN  IF len >= 1 /\ line[1] = "-"
           /\ b1 <= len /\ line[b1] = "["
           /\ b2 <= len /\ line[b2] = "]"
           /\ Starts # {}
        THEN LET p == CHOOSE x \in Starts : \A y \in Starts : y <= x
                 k == CHOOSE x \in (p + 1)..len :
                          /\ Valid(p, x)
                          /\ \A y \in (p + 1)..len : Valid(p, y) => x <= y
             IN  [ok |-> TRUE,
                  description |-> Strip(SubSeq(line, p, k - 1)),
                  note |-> Strip(SubSeq(line, SkipWs(line, Sep(k) + 1), len))]
        ELSE NoMatch

RECURSIVE PrimaryItemsDedup(_)
PrimaryItemsDedup(lines) ==
    IF lines = <<>> THEN <<>>
    ELSE LET before == PrimaryItemsDedup(SubSeq(lines, 1, Len(lines) - 1))
             line == CleanLine(lines[Len(lines)])
             m == PrimaryMatch(line)
             item == TodoItem(m.description, m.note)
         IN  IF line # <<>> /\ m.ok /\ \A i \in 1..Len(before) : before[i] # item
             THEN Append(before, item)
             ELSE before

\* the first loop: one TodoItem per non-empty line that matches, in line order
RECURSIVE PrimaryItems(_)
PrimaryItems(lines) ==
    IF lines = <<>> THEN <<>>
    ELSE LET before == PrimaryItems(SubSeq(lines, 1, Len(lines) - 1))
             line == CleanLine(lines[Len(lines)])
             m == PrimaryMatch(line)
         IN  IF line # <<>> /\ m.ok
             THEN Append(before, TodoItem(m.description, m.note))
             ELSE before

\* 'K' in line and 'Q' in line
Contains(line, c) == \E i \in 1..Len(line) : line[i] = c
FallbackTest(line) == Contains(line, "K") /\ Contains(line, "Q")

\* the second loop, over the lines of the raw text
RECURSIVE FallbackItems(_)
FallbackItems(lines) ==
    IF lines = <<>> THEN <<>>
    ELSE LET before == FallbackItems(SubSeq(lines, 1, Len(lines) - 1))
             line == lines[Len(lines)]
         IN  IF FallbackTest(line)
             THEN Append(before, TodoItem(Strip(line), <<>>))
             ELSE before

parse_todo_list_both(raw_output) ==
    PrimaryItems(raw_output) \o FallbackItems(raw_output)

parse_todo_list(raw_output) ==
    LET todos == PrimaryItems(raw_output)
    IN  IF todos = <<>> THEN FallbackItems(raw_output) ELSE todos

\* lines the todo agent can write
RawLines ==
    { <<"-", " ", "[", " ", "]", " ", "K", "Q", "a", " ", "|", " ", "b">>,
      <<"-", "[", "]", "a", "|", "b">>,
      <<" ", "-", " ", "[", "]", " ", "a", " ", "b", "|", "b", "|", "a", " ">>,
      <<"F", "-", " ", "[", " ", "]", " ", "a", "|", "K", "Q">>,
      <<"-", " ", "[", " ", "]", " ", "|", " ", "b">>,
      <<"-", " ", "[", " ", "]", " ", "K", "Q", "a">>,
      <<" ", "K", "Q", "a", "F", " ">>,
      <<"-", " ", "[", "a", "]", " ", "a", " ", "|", " ", "b">>,
      <<"a", " ", "-", " ", "[", " ", "]", " ", "a", "|", "b">>,
      <<"F", "J">>,
      <<" ">>,
      <<>> }

RawOutputs == SeqsUpTo(RawLines, MaxLines)

InitParse ==
    /\ CtlInit
    /\ parse_input \in RawOutputs
    /\ parse_output = NoParse
    /\ target_files = NoTargets
    /\ documents = <<>>
    /\ query = <<>>
    /\ search_n = 0
    /\ search_results = NoSearch
    /\ LoopIdle
    /\ StoreIdle

\* todos = parse_todo_list(raw_output)
ParseTodoList ==
    /\ ~parse_output.done
    /\ parse_output' = [done |-> TRUE, todos |-> parse_todo_list(parse_input)]
    /\ UNCHANGED ctlVars
    /\ UNCHANGED <<target_files, parse_input, documents, query, search_n, search_results>>
    /\ UNCHANGED <<loopVars, storeVars>>

NextParse == ParseTodoList

SpecParse == InitParse /\ [][NextParse]_vars

\* indexes of the lines of the text that match the primary grammar
PrimaryLines(raw) ==
    {i \in 1..Len(raw) : CleanLine(raw[i]) # <<>> /\ PrimaryMatch(CleanLine(raw[i])).ok}

\* indexes of the lines of the text that hold the keyword and the bracket
FallbackLines(raw) == {i \in 1..Len(raw) : FallbackTest(raw[i])}

\* the k-th smallest member of a set of indexes
Kth(S, k) == CHOOSE i \in S : Cardinality({j \in S : j <= i}) = k

\* C15: when at least one line matches the primary grammar, parse returns one
\* item per matching line, in line order, duplicates kept, and nothing for a
\* line that does not match.
PrimaryParseOnePerMatchingLine ==
    (parse_output.done /\ PrimaryLines(parse_input) # {}) =>
        LET S == PrimaryLines(parse_input)
            todos == parse_output.todos
        IN  /\ Len(todos) = Cardinality(S)
            /\ \A k \in 1..Len(todos) :
                   LET m == PrimaryMatch(CleanLine(parse_input[Kth(S, k)]))
                   IN  todos[k] = TodoItem(m.description, m.note)

\* C15 witness: the same matching line twice, a non-matching line between
PrimaryParseOnePerMatchingLineWitness ==
    /\ parse_output.done
    /\ Len(parse_input) = 3
    /\ PrimaryLines(parse_input) = {1, 3}
    /\ parse_input[1] = parse_input[3]
    /\ FallbackLines(parse_input) = {2}
    /\ Len(parse_output.todos) = 2

\* C16: the fallback grammar is used exactly when the primary grammar yields
\* no item; then every line holding the keyword and the bracket yields one
\* item, in line order, with the whole trimmed line as description and an
\* empty note; otherwise no fallback item is emitted.
FallbackOnlyWhenPrimaryEmpty ==
    parse_output.done =>
        LET P == PrimaryLines(parse_input)
            S == FallbackLines(parse_input)
            todos == parse_output.todos
        IN  IF P = {}
            THEN /\ Len(todos) = Cardinality(S)
                 /\ \A k \in 1..Len(todos) :
                        /\ todos[k].description = Strip(parse_input[Kth(S, k)])
                        /\ todos[k].note = <<>>
                        /\ todos[k].processed = FALSE
            ELSE /\ Len(todos) = Cardinality(P)
                 /\ \A i \in S \ P : \A k \in 1..Len(todos) :
                        ~(todos[k].description = Strip(parse_input[i]) /\ todos[k].note = <<>>)

\* C16 witness: no line matches the primary grammar and two lines pass the
\* fallback test
FallbackOnlyWhenPrimaryEmptyWitness ==
    /\ parse_output.done
    /\ PrimaryLines(parse_input) = {}
    /\ Cardinality(FallbackLines(parse_input)) = 2
    /\ Len(parse_input) = 3
    /\ Len(parse_output.todos) = 2

(***************************************************************************)
(* bm25_search.  A content or a query is given as the sequence of tokens    *)
(* jieba.cut yields for it; a document's file_name is its row number.       *)
(* Weights are integers: a logarithm is its value times 10^3, rounded, and  *)
(* the weights of a corpus with L terms are kept in units of 1/(16 L^2), so *)
(* that both quarter-of-the-mean floors are exact.                          *)
(***************************************************************************)
\* n: int = 10
DefaultN == 10

AllTerms == <<"a", "b", "c">>

RECURSIVE Sum(_, _)
Sum(f, k) == IF k = 0 THEN 0 ELSE f[k] + Sum(f, k - 1)

\* round(10^3 * ln(k)) for k = 1..15
Ln == <<0, 693, 1099, 1386, 1609, 1792, 1946, 2079, 2197, 2303, 2398, 2485, 2565, 2639, 2708>>

\* occurrences of term t in a token sequence
Occurrences(t, tokens) == Cardinality({i \in 1..Len(tokens) : tokens[i] = t})

\* nd[t]: number of documents that hold t
DocFreq(docs, t) == Cardinality({i \in 1..Len(docs) : Occurrences(t, docs[i].content) > 0})

\* the keys of bm25.idf
IdfTerms(docs) == {t \in {AllTerms[i] : i \in 1..Len(AllTerms)} : DocFreq(docs, t) > 0}

\* sum of the document lengths
TotalLen(docs) == Sum([i \in 1..Len(docs) |-> Len(docs[i].content)], Len(docs))

\* math.log(corpus_size - freq + 0.5) - math.log(freq + 0.5)
RawIdf(docs, t) ==
    Ln[2 * (Len(docs) - DocFreq(docs, t)) + 1] - Ln[2 * DocFreq(docs, t) + 1]

SumRawIdf(docs) ==
    Sum([i \in 1..Len(AllTerms) |->
            IF AllTerms[i] \in IdfTerms(docs) THEN RawIdf(docs, AllTerms[i]) ELSE 0],
        Len(AllTerms))

\* BM25Okapi(tokenized_corpus): idf with the negative values replaced by
\* 0.25 * average_idf
LibIdf(docs, t) ==
    LET L == Cardinality(IdfTerms(docs))
    IN  IF RawIdf(docs, t) < 0 THEN 4 * L * SumRawIdf(docs)
        ELSE 16 * L * L * RawIdf(docs, t)

SumLibIdf(docs) ==
    Sum([i \in 1..Len(AllTerms) |->
            IF AllTerms[i] \in IdfTerms(docs) THEN LibIdf(docs, AllTerms[i]) ELSE 0],
        Len(AllTerms))

\* epsilon = average_idf * 0.25, average_idf = sum(bm25.idf.values()) / len(bm25.idf)
Epsilon(docs) == SumLibIdf(docs) \div (4 * Cardinality(IdfTerms(docs)))

\* bm25.idf after the loop that replaces the values below zero by epsilon
FinalIdf(docs, t) ==
    IF LibIdf(docs, t) < 0 THEN Epsilon(docs) ELSE LibIdf(docs, t)

\* q_freq * (k1 + 1) / (q_freq + k1 * (1 - b + b * doc_len / avgdl)), k1 = 1.5,
\* b = 0.75, times 10^2
Saturation(docs, d, t) ==
    LET tf == Occurrences(t, docs[d].content)
        total == TotalLen(docs)
    IN  IF tf = 0 THEN 0
        ELSE (2000 * tf * total)
                 \div (8 * tf * total + 3 * total + 9 * Len(docs[d].content) * Len(docs))

\* bm25.get_scores(tokenized_query)[d]; a query token outside idf weighs 0
Score(docs, q, d) ==
    Sum([i \in 1..Len(q) |->
            IF q[i] \in IdfTerms(docs)
            THEN FinalIdf(docs, q[i]) * Saturation(docs, d, q[i])
            ELSE 0],
        Len(q))

KeepNonNegative(score) == score >= 0

\* if score > 0
Keep(score) == score > 0

\* results, in row order: (file_name, score) of the rows kept
RECURSIVE Positive(_, _, _)
Positive(docs, q, k) ==
    IF k = 0 THEN <<>>
    ELSE LET before == Positive(docs, q, k - 1)
         IN  IF Keep(Score(docs, q, k))
             THEN Append(before, [file_name |-> docs[k].file_name, score |-> Score(docs, q, k)])
             ELSE before

\* results.sort(key=lambda x: x[1], reverse=True): a stable sort, rows of equal
\* score keep their order
RECURSIVE SortDescending(_)
SortDescending(rows) ==
    IF rows = <<>> THEN <<>>
    ELSE LET sorted == SortDescending(SubSeq(rows, 1, Len(rows) - 1))
             x == rows[Len(rows)]
             ahead == Cardinality({i \in 1..Len(sorted) : sorted[i].score >= x.score})
         IN  SubSeq(sorted, 1, ahead) \o <<x>> \o SubSeq(sorted, ahead + 1, Len(sorted))

\* results[:n], n >= 0
Truncate(rows, k) == SubSeq(rows, 1, IF k < Len(rows) THEN k ELSE Len(rows))

bm25_search(docs, q, k) ==
    IF docs = <<>> THEN [status |-> "ok", items |-> <<>>]
    ELSE IF IdfTerms(docs) = {}
         THEN [status |-> "error", items |-> <<>>]
         ELSE [status |-> "ok",
               items |-> Truncate(SortDescending(Positive(docs, q, Len(docs))), k)]

\* contents and queries, as token sequences
DocContents == {<<>>, <<"a">>, <<"a", "a">>, <<"a", "b">>, <<"a", "c">>, <<"b">>}
Queries == {<<>>, <<"a">>, <<"a", "b">>, <<"z">>}

RECURSIVE Corpora(_)
Corpora(k) ==
    IF k = 0 THEN {<<>>}
    ELSE LET shorter == Corpora(k - 1)
         IN  shorter \cup
             {Append(c, [file_name |-> k, content |-> x]) :
                  c \in {t \in shorter : Len(t) = k - 1}, x \in DocContents}

InitRank ==
    /\ CtlInit
    /\ documents \in Corpora(MaxDocs)
    /\ query \in Queries
    /\ search_n \in {1, DefaultN}
    /\ search_results = NoSearch
    /\ target_files = NoTargets
    /\ parse_input = <<>>
    /\ parse_output = NoParse
    /\ LoopIdle
    /\ StoreIdle

\* results = bm25_search(query, n)
Bm25Search ==
    /\ search_results.status = "none"
    /\ search_results' = bm25_search(documents, query, search_n)
    /\ UNCHANGED ctlVars
    /\ UNCHANGED <<target_files, parse_input, parse_output, documents, query, search_n>>
    /\ UNCHANGED <<loopVars, storeVars>>

NextRank == Bm25Search

SpecRank == InitRank /\ [][NextRank]_vars

(***************************************************************************)
(* Claims about bm25_search                                                 *)
(***************************************************************************)
Searched == search_results.status # "none"

\* the rows of the corpus with a score above zero
PositiveRows == {d \in 1..Len(documents) : Score(documents, query, d) > 0}

\* row d comes before row e in the ranking: higher score, or equal score and
\* earlier in the corpus
RankedBefore(d, e) ==
    \/ Score(documents, query, d) > Score(documents, query, e)
    \/ /\ Score(documents, query, d) = Score(documents, query, e)
       /\ d < e

\* C18: the result of a search holds only rows whose score is strictly
\* positive, each with its score, ordered by descending score with rows of
\* equal score in corpus order; it is the first n rows of that ranking, so
\* its length is the smaller of n and the number of positive rows.
RankedPositiveTopN ==
    (search_results.status = "ok" /\ IdfTerms(documents) # {}) =>
        LET items == search_results.items
            kept == {items[i].file_name : i \in 1..Len(items)}
        IN  /\ \A i \in 1..Len(items) :
                /\ items[i].file_name \in PositiveRows
                /\ items[i].score = Score(documents, query, items[i].file_name)
            /\ \A i, j \in 1..Len(items) :
                i < j => RankedBefore(items[i].file_name, items[j].file_name)
            /\ \A d \in kept, e \in PositiveRows \ kept : RankedBefore(d, e)
            /\ Len(items) = IF search_n < Cardinality(PositiveRows)
                            THEN search_n ELSE Cardinality(PositiveRows)

\* a search that returned two rows of equal score in corpus order and left a
\* third row out
RankedPositiveTopNWitness ==
    /\ search_results.status = "ok"
    /\ Len(documents) = 3
    /\ Len(search_results.items) = 2
    /\ search_results.items[1].score = search_results.items[2].score
    /\ search_results.items[1].file_name < search_results.items[2].file_name

\* C19: after the correction every term held by more than half of the
\* documents weighs a quarter of the mean weight, and that weight is strictly
\* positive.
IdfFloorPositive ==
    search_results.status = "ok" =>
        \A t \in IdfTerms(documents) :
            2 * DocFreq(documents, t) > Len(documents) =>
                /\ FinalIdf(documents, t) > 0
                /\ \/ FinalIdf(documents, t) * 4 * Cardinality(IdfTerms(documents))
                          = SumLibIdf(documents)
                   \/ FinalIdf(documents, t) = LibIdf(documents, t)

\* C20: a search over an empty corpus, or one in which no row scores above
\* zero, ends without an error and returns nothing.
RetrievalDegenerate ==
    (Searched /\ (documents = <<>> \/ IdfTerms(documents) = {} \/ PositiveRows = {})) =>
        search_results = [status |-> "ok", items |-> <<>>]

(***************************************************************************)
(* The planner and executor workflows: a SequentialAgent whose sub-agents   *)
(* run in order, one of them a GenericLoop that repeats its stages until    *)
(* the exit signal or the iteration cap.  A stage is an LlmAgent: what it   *)
(* writes and whether it calls a tool it has is the model's free choice.    *)
(***************************************************************************)
ExitTool == "exit_loop_action"

DbTools == {"get_all_modules", "get_files_by_module", "get_content_by_file_name",
            "get_content_by_module", "get_all_documents", "bm25_search"}

\* sub_agents of planner_agent
PlannerSequence == <<"initial_planner", "refinement_loop", "presenter_agent">>

RefinementStagesSwapped == <<"refiner_agent", "critic_agent">>

\* sub_agents of refinement_loop_agent
RefinementStages == <<"critic_agent", "refiner_agent">>

\* max_iterations of execution_loop
execution_max_iterations == 10

refinement_max_iterations_as_execution == execution_max_iterations

\* max_iterations of refinement_loop_agent
refinement_max_iterations == 3

PlannerToolsSharedList(agent) ==
    CASE agent \in {"initial_planner", "critic_agent", "refiner_agent"} -> {ExitTool} \cup DbTools
      [] OTHER -> {}

\* tools= of the planner's agents
PlannerTools(agent) ==
    CASE agent \in {"initial_planner", "critic_agent"} -> DbTools
      [] agent = "refiner_agent" -> {ExitTool} \cup DbTools
      [] OTHER -> {}

\* sub_agents of execution_agent
ExecutionSequence == <<"execution_loop", "summarizer_agent", "clean_answer_agent">>

\* sub_agents of execution_loop
ExecutionStages == <<"executor_worker", "progress_update_agent", "execution_verifier">>

\* tools= of the executor's agents
ExecutorTools(agent) ==
    CASE agent = "executor_worker" -> DbTools
      [] agent = "execution_verifier" -> {ExitTool}
      [] OTHER -> {}

Workflows == {"planner", "executor"}
Sequence(w) == IF w = "planner" THEN PlannerSequence ELSE ExecutionSequence
LoopName(w) == IF w = "planner" THEN "refinement_loop" ELSE "execution_loop"
LoopStages(w) == IF w = "planner" THEN RefinementStages ELSE ExecutionStages
LoopCap(w) == IF w = "planner" THEN refinement_max_iterations ELSE execution_max_iterations
ToolsOf(w, agent) == IF w = "planner" THEN PlannerTools(agent) ELSE ExecutorTools(agent)

\* position of x in the sequence seq, 0 when it is not there
IndexOf(seq, x) ==
    IF \E i \in 1..Len(seq) : seq[i] = x
    THEN CHOOSE i \in 1..Len(seq) : seq[i] = x
    ELSE 0

InLoop(w, agent) == IndexOf(LoopStages(w), agent) > 0

\* critic verdicts: the completion phrase, or a list of changes
Verdicts == {"agree", "changes"}

LoopIgnoresExit(w, agent, pass, exit) ==
    \/ IndexOf(LoopStages(w), agent) < Len(LoopStages(w))
    \/ pass < LoopCap(w)

\* GenericLoop: after a stage, the loop goes on unless the exit signal is set,
\* or the stage was the last of the pass and the pass was the last one
LoopGoesOn(w, agent, pass, exit) ==
    /\ ~exit
    /\ \/ IndexOf(LoopStages(w), agent) < Len(LoopStages(w))
       \/ pass < LoopCap(w)

\* SequentialAgent: the workflow moves to its k-th sub-agent, or ends after the
\* last one; a loop starts its first pass with the exit signal clear
EnterSequence(w, k) ==
    IF k > Len(Sequence(w))
    THEN /\ stage' = "done"
         /\ UNCHANGED <<loop_pass, loop_exit, stage_runs>>
    ELSE IF Sequence(w)[k] = LoopName(w)
         THEN /\ stage' = LoopStages(w)[1]
              /\ loop_pass' = 1
              /\ loop_exit' = FALSE
              /\ stage_runs' = stage_runs + 1
         ELSE /\ stage' = Sequence(w)[k]
              /\ UNCHANGED <<loop_pass, loop_exit, stage_runs>>

LoopFrame ==
    /\ UNCHANGED ctlVars
    /\ UNCHANGED <<target_files, parse_input, parse_output, documents, query, search_n,
                   search_results, storeVars>>

\* the runner starts the workflow's root agent
WorkflowStart(w) ==
    /\ workflow = "none"
    /\ workflow' = w
    /\ EnterSequence(w, 1)
    /\ UNCHANGED criticism
    /\ LoopFrame

\* the running stage calls exit_loop_action()
ExitCall ==
    /\ workflow \in Workflows
    /\ ExitTool \in ToolsOf(workflow, stage)
    /\ ~loop_exit
    /\ loop_exit' = TRUE
    /\ UNCHANGED <<workflow, stage, loop_pass, criticism, stage_runs>>
    /\ LoopFrame

\* the running stage ends; critic_agent's output goes to the key criticism
StageFinish(verdict) ==
    /\ workflow \in Workflows
    /\ stage \notin {"idle", "done", "failed"}
    /\ criticism' = IF stage = "critic_agent"
                    THEN [value |-> verdict, pass |-> loop_pass]
                    ELSE criticism
    /\ IF InLoop(workflow, stage)
       THEN IF LoopGoesOn(workflow, stage, loop_pass, loop_exit)
            THEN /\ stage_runs' = stage_runs + 1
                 /\ UNCHANGED loop_exit
                 /\ IF IndexOf(LoopStages(workflow), stage) < Len(LoopStages(workflow))
                    THEN /\ stage' = LoopStages(workflow)[IndexOf(LoopStages(workflow), stage) + 1]
                         /\ UNCHANGED loop_pass
                    ELSE /\ stage' = LoopStages(workflow)[1]
                         /\ loop_pass' = loop_pass + 1
            ELSE EnterSequence(workflow, IndexOf(Sequence(workflow), LoopName(workflow)) + 1)
       ELSE EnterSequence(workflow, IndexOf(Sequence(workflow), stage) + 1)
    /\ UNCHANGED workflow
    /\ LoopFrame

\* the running stage raises: the exception ends the workflow
StageFault ==
    /\ workflow \in Workflows
    /\ stage \notin {"idle", "done", "failed"}
    /\ stage' = "failed"
    /\ UNCHANGED <<workflow, loop_pass, loop_exit, criticism, stage_runs>>
    /\ LoopFrame

NextLoop ==
    \/ \E w \in Workflows : WorkflowStart(w)
    \/ ExitCall
    \/ \E v \in Verdicts : StageFinish(v)
    \/ StageFault

SpecLoop == Init /\ [][NextLoop]_vars

(***************************************************************************)
(* The documents table: the queries of src/utils/db.py that list it and    *)
(* the script scripts/import_mindmap.py that reloads it.  A module and a    *)
(* file are named by a number, ordered as the store orders the names.       *)
(***************************************************************************)
\* most module folders under the mindmap folder
MaxModules == 2
\* most *.md files under the module folders, all together
MaxFiles == 2

\* a nullable column holds NULL or <<v>>, one value
NULL == <<>>

\* one row of documents (module, file_name, content, file_path); load is not a
\* column: it tells the rows the table held before the script ran ("old")
\* from the rows the script inserts ("new")
Row(module, file_name, content, file_path, load) ==
    [module |-> module, file_name |-> file_name, content |-> content,
     file_path |-> file_path, load |-> load]

\* {"file_name": md_file.stem, "file_path": str(md_file.absolute()),
\* "content": md_file.read_text()}; file 1 of a module is an empty file
FileInfo(module, name) ==
    [file_name |-> name, file_path |-> <<module, name>>,
     content |-> IF name = 1 THEN "" ELSE "md"]

\* the *.md files of one folder, in path order, which is not the order of
\* their stems ("a b.md" sorts before "a.md")
NameLists ==
    {names \in UNION {[1..n -> 1..MaxFiles] : n \in 0..MaxFiles} :
        \A i, j \in DOMAIN names : i # j => names[i] # names[j]}

\* what scan_mindmap_folder can return: the module folders ascending
\* (sorted(MINDMAP_DIR.iterdir())), each with its files
Scans ==
    LET ModuleLists == {ms \in UNION {[1..n -> 1..MaxModules] : n \in 0..MaxModules} :
                           \A i, j \in DOMAIN ms : i < j => ms[i] < ms[j]}
    IN
    UNION {{[i \in 1..Len(ms) |->
                [module |-> ms[i],
                 files  |-> [k \in 1..Len(names[i]) |-> FileInfo(ms[i], names[i][k])]]] :
              names \in {ns \in [1..Len(ms) -> NameLists] :
                           Sum([i \in 1..Len(ms) |-> Len(ns[i])], Len(ms)) <= MaxFiles}} :
           ms \in ModuleLists}

\* as RowsOf, but the NULL row is inserted for every module
RowsOfAlwaysSentinel(module_data, load) ==
    <<Row(module_data.module, NULL, NULL, NULL, load)>> \o
    [k \in 1..Len(module_data.files) |->
        Row(module_data.module, <<module_data.files[k].file_name>>,
            <<module_data.files[k].content>>, <<module_data.files[k].file_path>>, load)]

\* the body of the loop of import_to_db: the rows inserted for one module
RowsOf(module_data, load) ==
    IF module_data.files # <<>>
    THEN [k \in 1..Len(module_data.files) |->
             Row(module_data.module, <<module_data.files[k].file_name>>,
                 <<module_data.files[k].content>>,
                 <<module_data.files[k].file_path>>, load)]
    ELSE <<Row(module_data.module, NULL, NULL, NULL, load)>>

\* for module_data in data: the rows import_to_db inserts, in order
RECURSIVE Inserts(_, _)
Inserts(d, load) ==
    IF d = <<>> THEN <<>> ELSE RowsOf(Head(d), load) \o Inserts(Tail(d), load)

\* TRUNCATE TABLE documents RESTART IDENTITY; conn.commit()
clear_table(t) == <<>>

\* as CloseConnection, on a connection that commits every statement
CloseConnectionAutocommit(t, txn) == t \o txn

\* finally: conn.close() -- the open transaction is rolled back
CloseConnection(t, txn) == t

\* ORDER BY on a list of names: each name goes behind the sorted names that
\* are not greater
RECURSIVE OrderBy(_)
OrderBy(names) ==
    IF names = <<>> THEN <<>>
    ELSE LET sorted == OrderBy(Tail(names))
             k == Cardinality({i \in 1..Len(sorted) : sorted[i] <= Head(names)})
         IN  SubSeq(sorted, 1, k) \o <<Head(names)>> \o SubSeq(sorted, k + 1, Len(sorted))

\* SELECT DISTINCT module FROM documents ORDER BY module
get_all_modules(t) ==
    LET distinct == {t[i].module : i \in 1..Len(t)}
    IN  [i \in 1..Cardinality(distinct) |->
            CHOOSE x \in distinct : Cardinality({y \in distinct : y < x}) = i - 1]

\* as get_files_by_module, without "AND file_name IS NOT NULL": a NULL sorts last
get_files_by_module_with_null(t, module) ==
    LET rows == SelectSeq(t, LAMBDA row : row.module = module)
        named == SelectSeq(rows, LAMBDA row : row.file_name # NULL)
        nulls == SelectSeq(rows, LAMBDA row : row.file_name = NULL)
    IN  [i \in 1..Len(named) |-> <<OrderBy([k \in 1..Len(named) |-> named[k].file_name[1]])[i]>>]
        \o [i \in 1..Len(nulls) |-> NULL]

\* SELECT file_name FROM documents WHERE module = %s AND file_name IS NOT NULL
\* ORDER BY file_name; return [row[0] for row in cur.fetchall()]
get_files_by_module(t, module) ==
    LET rows == SelectSeq(t, LAMBDA row : row.module = module /\ row.file_name # NULL)
    IN  [i \in 1..Len(rows) |-> <<OrderBy([k \in 1..Len(rows) |-> rows[k].file_name[1]])[i]>>]

\* tables the script can find: empty, or left by an earlier run of the script
\* over one module with at most one file
OldTables ==
    {Inserts(d, "old") :
        d \in {old \in Scans : Len(old) <= 1 /\ \A i \in DOMAIN old : Len(old[i].files) <= 1}}

InitStore ==
    /\ CtlInit
    /\ target_files = NoTargets
    /\ parse_input = <<>>
    /\ parse_output = NoParse
    /\ documents = <<>>
    /\ query = <<>>
    /\ search_n = 0
    /\ search_results = NoSearch
    /\ LoopIdle
    /\ table \in OldTables
    /\ transaction = <<>>
    /\ data = <<>>
    /\ reload_pc = "idle"
    /\ listing = [query |-> "none", module |-> <<>>, value |-> <<>>]

StoreFrame ==
    /\ UNCHANGED ctlVars
    /\ UNCHANGED <<target_files, parse_input, parse_output, documents, query, search_n,
                   search_results, loopVars>>

\* positions of main at which the script has ended
Quiet == {"nothing", "failed_clear", "failed_insert", "failed_commit", "failed_summary",
          "done"}

\* modules = get_all_modules(), by an analysis tool, once the script has ended
GetAllModules ==
    /\ reload_pc \in Quiet
    /\ listing' = [query |-> "get_all_modules", module |-> NULL, value |-> get_all_modules(table)]
    /\ UNCHANGED <<table, transaction, data, reload_pc>>
    /\ StoreFrame

\* files = get_files_by_module(module)
GetFilesByModule(module) ==
    /\ reload_pc \in Quiet
    /\ listing' = [query |-> "get_files_by_module", module |-> <<module>>,
                   value |-> get_files_by_module(table, module)]
    /\ UNCHANGED <<table, transaction, data, reload_pc>>
    /\ StoreFrame

\* data = scan_mindmap_folder(); if not data: return; conn = get_connection()
ScanFolder(d) ==
    /\ reload_pc = "idle"
    /\ data' = d
    /\ reload_pc' = IF d = <<>> THEN "nothing" ELSE "connected"
    /\ UNCHANGED <<table, transaction, listing>>
    /\ StoreFrame

\* clear_table(conn)
ClearTable ==
    /\ reload_pc = "connected"
    /\ table' = clear_table(table)
    /\ reload_pc' = "cleared"
    /\ UNCHANGED <<transaction, data, listing>>
    /\ StoreFrame

\* one cur.execute("INSERT INTO documents ...") of import_to_db
InsertRow ==
    /\ reload_pc = "cleared"
    /\ Len(transaction) < Len(Inserts(data, "new"))
    /\ transaction' = Append(transaction, Inserts(data, "new")[Len(transaction) + 1])
    /\ UNCHANGED <<table, data, reload_pc, listing>>
    /\ StoreFrame

\* conn.commit() at the end of import_to_db
Commit ==
    /\ reload_pc = "cleared"
    /\ Len(transaction) = Len(Inserts(data, "new"))
    /\ table' = table \o transaction
    /\ transaction' = <<>>
    /\ reload_pc' = "imported"
    /\ UNCHANGED <<data, listing>>
    /\ StoreFrame

\* show_summary(conn); finally: conn.close()
ShowSummary ==
    /\ reload_pc = "imported"
    /\ reload_pc' = "done"
    /\ UNCHANGED <<table, transaction, data, listing>>
    /\ StoreFrame

\* a statement raises -- the TRUNCATE or its commit, an INSERT, the commit of
\* the inserts, a query of show_summary -- and leaves main through
\* finally: conn.close()
ReloadFault ==
    /\ reload_pc \in {"connected", "cleared", "imported"}
    /\ table' = CloseConnection(table, transaction)
    /\ reload_pc' =
          CASE reload_pc = "connected" -> "failed_clear"
            [] reload_pc = "cleared" /\ Len(transaction) < Len(Inserts(data, "new")) ->
                   "failed_insert"
            [] reload_pc = "cleared" /\ Len(transaction) = Len(Inserts(data, "new")) ->
                   "failed_commit"
            [] reload_pc = "imported" -> "failed_summary"
    /\ UNCHANGED <<transaction, data, listing>>
    /\ StoreFrame

NextStore ==
    \/ GetAllModules
    \/ \E module \in 1..MaxModules : GetFilesByModule(module)
    \/ \E d \in Scans : ScanFolder(d)
    \/ ClearTable
    \/ InsertRow
    \/ Commit
    \/ ShowSummary
    \/ ReloadFault

\* one run of the import script, alone, and the store queries before and after it
SpecStore == InitStore /\ [][NextStore]_vars

(***************************************************************************)
(* Claims about the bounded loops                                           *)
(***************************************************************************)
Agents == {"initial_planner", "critic_agent", "refiner_agent", "presenter_agent",
           "executor_worker", "progress_update_agent", "execution_verifier",
           "summarizer_agent", "clean_answer_agent"}

\* a stage of the loop has ended and the workflow has moved on
StageEnded == stage' # stage /\ stage' # "failed"

\* C21: a loop never starts more passes than its cap, 3 for the refine loop
\* and 10 for the execute loop, whether or not a stage calls the exit action:
\* when the last stage of the last pass ends, the workflow leaves the loop.
BoundedLoopTerminates ==
    /\ [](workflow = "planner" => (loop_pass <= 3 /\ stage_runs <= 3 * 2))
    /\ [](workflow = "executor" => (loop_pass <= 10 /\ stage_runs <= 10 * 3))
    /\ [][(/\ workflow \in Workflows
           /\ InLoop(workflow, stage)
           /\ loop_pass = (IF workflow = "planner" THEN 3 ELSE 10)
           /\ IndexOf(LoopStages(workflow), stage) = Len(LoopStages(workflow))
           /\ StageEnded)
          => ~InLoop(workflow, stage')]_vars

\* C21 witness: the refine loop has run its three passes without an exit
\* signal and the workflow has moved on to the presenter
BoundedLoopTerminatesWitness ==
    /\ workflow = "planner"
    /\ stage = "presenter_agent"
    /\ loop_pass = 3
    /\ stage_runs = 6
    /\ ~loop_exit

\* C22: once the exit action has been called, the end of the running stage
\* ends the loop: no further stage of the loop is started, in this pass or in
\* a later one, whatever the number of passes left.
ExitEndsLoop ==
    [][(/\ workflow \in Workflows
        /\ InLoop(workflow, stage)
        /\ loop_exit
        /\ StageEnded)
       => (/\ ~InLoop(workflow, stage')
           /\ loop_pass' = loop_pass
           /\ stage_runs' = stage_runs)]_vars

\* C22 witness: the execute loop has ended in its first pass on the exit
\* signal, nine passes before its cap
ExitEndsLoopWitness ==
    /\ workflow = "executor"
    /\ stage = "summarizer_agent"
    /\ loop_exit
    /\ loop_pass = 1
    /\ stage_runs = 3

\* C23: only the refiner of the refine loop and the verifier of the execute
\* loop have the exit action among their tools, and the exit signal is raised
\* only while one of them is running.
ExitOnlyOnDesignatedStage ==
    /\ [](\A w \in Workflows, a \in Agents :
             ExitTool \in ToolsOf(w, a) =>
                 a = (IF w = "planner" THEN "refiner_agent" ELSE "execution_verifier"))
    /\ [][(loop_exit' /\ ~loop_exit) =>
             stage = (IF workflow = "planner" THEN "refiner_agent" ELSE "execution_verifier")]_vars

\* C23 witness: the exit signal is set while the verifier is running
ExitOnlyOnDesignatedStageWitness ==
    /\ workflow = "executor"
    /\ stage = "execution_verifier"
    /\ loop_exit
    /\ loop_pass = 2

\* C29 (as claimed): each pass of the refine loop executes propose, critique,
\* refine in that order: a pass starts with the proposing stage, critique
\* follows propose and refine follows critique.
RefinePassProposeCritiqueRefine ==
    [][(workflow' = "planner" /\ loop_pass' # loop_pass) => stage' = "initial_planner"]_vars

\* C29 (amended): propose runs once, before the refine loop; each pass of the
\* loop executes critique, then refine; refine is the only stage of the planner
\* that invokes the exit action, and when it does critique has written its
\* verdict into shared state in the same pass.
PlannerProposeThenCritiqueRefine ==
    /\ []((workflow = "planner" /\ stage = "initial_planner") => loop_pass = 0)
    /\ [][(workflow' = "planner" /\ loop_pass' # loop_pass) => stage' = "critic_agent"]_vars
    /\ [][(workflow = "planner" /\ stage = "critic_agent" /\ StageEnded) =>
             (/\ stage' = "refiner_agent"
              /\ loop_pass' = loop_pass
              /\ criticism'.pass = loop_pass
              /\ criticism'.value \in Verdicts)]_vars
    /\ [][(workflow = "planner" /\ stage = "refiner_agent" /\ StageEnded) =>
             \/ stage' = "critic_agent" /\ loop_pass' = loop_pass + 1
             \/ stage' = "presenter_agent"]_vars
    /\ [][(workflow = "planner" /\ loop_exit' /\ ~loop_exit) =>
             (stage = "refiner_agent" /\ criticism.pass = loop_pass)]_vars

\* C29 witness: in the second pass the critic has agreed and the refiner has
\* called the exit action
PlannerProposeThenCritiqueRefineWitness ==
    /\ workflow = "planner"
    /\ stage = "refiner_agent"
    /\ loop_pass = 2
    /\ criticism = [value |-> "agree", pass |-> 2]
    /\ loop_exit

(***************************************************************************)
(* Claims about the item loop, its retries, its events and its log          *)
(***************************************************************************)
\* C24: when every processor invocation reports at most one outcome, an
\* iteration of the item loop moves the cursor by exactly one (from
\* start_index to start_index + 1), so the cursor never exceeds the number of
\* iterations started: no item is completed that was not the current item at
\* the start of an iteration.
OneItemPerIteration ==
    /\ [](\A r \in Requests : Cursor(r) <= iterations[r])
    /\ [][\A r \in Requests :
             (pc[r] = "watchdog" /\ pc'[r] = "loop") =>
                 Cursor(r)' = start_index[r] + 1]_vars

\* C25: an invocation that ends without a fault is the last one of its
\* iteration, whether or not the cursor moved; an iteration makes one
\* invocation plus one per fault, and an invocation starts only while fewer
\* than 3 attempts have been made.
NoInvocationAfterCleanReturn ==
    /\ [](\A r \in Requests : invocations[r] <= iterations[r] + faults[r])
    /\ [][\A r \in Requests :
             /\ (invocations'[r] # invocations[r]) => (pc[r] = "attempt" /\ attempt[r] < 3)
             /\ (pc[r] = "running" /\ pc'[r] = "attempt") => faults'[r] # faults[r]
             /\ (pc[r] = "running" /\ faults'[r] = faults[r]) => pc'[r] \in {"running", "watchdog"}
             /\ pc[r] = "watchdog" =>
                    (invocations'[r] = invocations[r] /\ pc'[r] \in {"watchdog", "loop"})]_vars

\* C25 witness: after one fault the second invocation returned without moving
\* the cursor, and the iteration ended with no third invocation
NoInvocationAfterCleanReturnWitness ==
    \E r \in Requests :
        /\ pc[r] = "loop"
        /\ iterations[r] = 1 /\ invocations[r] = 2 /\ faults[r] = 1
        /\ capReports[r] = 0
        /\ HasForced(r)

LastEvent(r) == IF events[r] = <<>> THEN "none" ELSE events[r][Len(events[r])]

\* e is among the latest events; the summary and the completion event are the
\* last two events of a run, so once emitted they stay among the latest
Emitted(r, e) == \E i \in 1..Len(events[r]) : events[r][i] = e

\* retry events emitted since the last item-start event
RetryEventsOfItem(r) ==
    LET starts == {i \in 1..Len(events[r]) : events[r][i] = "item_start"}
    IN  Cardinality({i \in 1..Len(events[r]) :
                        /\ events[r][i] = "retry"
                        /\ \A j \in starts : j < i})

\* an outcome synthesized by the controller is recorded in this step
ForcedRecorded(r) ==
    /\ Len(Results(r)') = Len(Results(r)) + 1
    /\ IsForced(Results(r)'[Len(Results(r)')])

\* C26: when a fault has left the item loop, the last event emitted is the
\* fatal-fault event; the step that records a synthesized outcome emits the
\* forced-skip event first; attempts 2 and 3 start right after a retry event,
\* and an item has at most 2 retry events.
EventOrdering ==
    /\ [](\A r \in Requests : pc[r] = "failed_item" => LastEvent(r) = "fatal_fault")
    /\ [](\A r \in Requests : RetryEventsOfItem(r) <= 2)
    /\ [][\A r \in Requests :
             /\ ForcedRecorded(r) =>
                    (events'[r] # events[r] /\ LastEvent(r)' = "forced_skip")
             /\ (invocations'[r] # invocations[r] /\ attempt[r] > 0) =>
                    LastEvent(r) = "retry"]_vars

\* the summary or the completion event is emitted in this step
SummaryOrCompletionEmitted(r) ==
    /\ events'[r] # events[r]
    /\ LastEvent(r)' \in {"summary", "completed"}

\* the summary stage is entered and the summary and completion events are
\* emitted only when the cursor has reached the end of the checklist
SummaryNeedsComplete ==
    /\ [](\A r \in Requests : pc[r] = "summary" => Cursor(r) >= Len(Items(r)))
    /\ [][\A r \in Requests :
             SummaryOrCompletionEmitted(r) => Cursor(r) >= Len(Items(r))]_vars

InjectedInstructionDiscarded ==
    [][\A r \in Requests :
          (pc[r] = "running" /\ pc'[r] = "attempt") =>
              messages'[r] = SubSeq(messages[r], 1, log_mark[r])]_vars

(***************************************************************************)
(* Claims about tool calls outside a request scope                          *)
(***************************************************************************)
StrayReportOrTodo(r) ==
    \/ \E res \in CapResults : StraySave(r, res)
    \/ StrayRead(r)

\* C30 (as claimed): save_result, get_current_todo or get_all_results called
\* where no request scope is established returns an error value and changes
\* no TodoManager.
StrayCallReturnsError ==
    [][\A r \in Requests :
          (StrayReportOrTodo(r) \/ StrayResults(r)) =>
              (reply'[r] = ErrorReply /\ managers' = managers)]_vars

\* C30 (amended): called where no request scope is established, save_result
\* and get_current_todo return an error message and get_all_results returns
\* an empty list; none of them changes a TodoManager.
StrayCallChangesNoTracker ==
    [][\A r \in Requests :
          /\ StrayReportOrTodo(r) => (reply'[r] = ErrorReply /\ managers' = managers)
          /\ StrayResults(r) => (reply'[r] = NoScopeResults /\ managers' = managers)]_vars

\* C30 witness: after request 1 has finished with an outcome recorded, a
\* call in its context got the error message, and a get_all_results call in
\* the context of request 2 got the empty list
StrayCallChangesNoTrackerWitness ==
    /\ pc[1] = "done"
    /\ Len(Results(1)) = 1
    /\ reply[1] = ErrorReply
    /\ reply[2] = NoScopeResults

(***************************************************************************)
(* Claims about the documents table and its reload                         *)
(***************************************************************************)
\* rows of the table with that module value
RowsOfModule(module) == {i \in 1..Len(table) : table[i].module = module}

\* the module is in the table as its sentinel row only
SentinelOnly(module) ==
    /\ Cardinality(RowsOfModule(module)) = 1
    /\ \A i \in RowsOfModule(module) :
          table[i].file_name = NULL /\ table[i].content = NULL /\ table[i].file_path = NULL

\* times the name is in the listing
TimesListed(name) ==
    Cardinality({i \in 1..Len(listing.value) : listing.value[i] = <<name>>})

\* rows of the module that carry the name
TimesStored(module, name) ==
    Cardinality({i \in RowsOfModule(module) : table[i].file_name = <<name>>})

\* C31: a listing of the files of a module holds no absent name, holds each
\* name as often as the rows of that module carry it, and is ascending; for a
\* module that is in the table as its sentinel row only it is empty; a listing
\* of the modules holds, ascending and once each, every module that has a row,
\* the sentinel-only modules included.
ListingIsNonAbsentNamesAscending ==
    /\ listing.query = "get_files_by_module" =>
          /\ \A i \in 1..Len(listing.value) : listing.value[i] # NULL
          /\ \A name \in 1..MaxFiles : TimesListed(name) = TimesStored(listing.module[1], name)
          /\ \A i, j \in 1..Len(listing.value) :
                i < j => listing.value[i][1] <= listing.value[j][1]
          /\ SentinelOnly(listing.module[1]) => listing.value = <<>>
    /\ listing.query = "get_all_modules" =>
          /\ \A module \in 1..MaxModules :
                (RowsOfModule(module) # {}) <=>
                    (\E i \in 1..Len(listing.value) : listing.value[i] = module)
          /\ \A i, j \in 1..Len(listing.value) : i < j => listing.value[i] < listing.value[j]

\* C31 witness: the files of a sentinel-only module were listed, in a table
\* that also holds a module whose two files were inserted in descending order
ListingIsNonAbsentNamesAscendingWitness ==
    /\ listing.query = "get_files_by_module"
    /\ SentinelOnly(listing.module[1])
    /\ listing.value = <<>>
    /\ \E i \in 1..Len(table) :
          /\ i < Len(table)
          /\ table[i].module = table[i + 1].module
          /\ table[i].file_name # NULL /\ table[i + 1].file_name # NULL
          /\ table[i].file_name[1] > table[i + 1].file_name[1]

\* the script has committed its inserts and has not failed
ReloadSucceeded == reload_pc \in {"imported", "done"}

\* C32: after a reload that succeeded, a scanned module without files is in
\* the table as its sentinel row only, a scanned module with k > 0 files has
\* exactly k rows, each with module, file_name, content and file_path present,
\* and every row of the table was inserted by this reload.
ReloadedStoreMatchesScan ==
    ReloadSucceeded =>
        /\ \A k \in 1..Len(data) :
              /\ data[k].files = <<>> => SentinelOnly(data[k].module)
              /\ data[k].files # <<>> =>
                    /\ Cardinality(RowsOfModule(data[k].module)) = Len(data[k].files)
                    /\ \A i \in RowsOfModule(data[k].module) :
                          /\ table[i].file_name # NULL
                          /\ table[i].content # NULL
                          /\ table[i].file_path # NULL
        /\ \A i \in 1..Len(table) : table[i].load = "new"

\* C32 witness: a reload that succeeded over a module without files and a
\* module with two files, one of them an empty file
ReloadedStoreMatchesScanWitness ==
    /\ reload_pc = "done"
    /\ \E k \in 1..Len(data) : data[k].files = <<>>
    /\ \E k \in 1..Len(data) :
          /\ Len(data[k].files) = 2
          /\ \E f \in 1..Len(data[k].files) : data[k].files[f].content = ""

\* positions of main that follow the commit of the clear
ClearCommitted == {"cleared", "failed_insert", "failed_commit", "imported",
                   "failed_summary", "done"}

\* positions of main that follow the commit of the inserts
InsertsCommitted == {"imported", "failed_summary", "done"}

\* the table changes twice at most: the clear empties it, and one commit puts
\* all rows of the scan into it
TwoCommits ==
    [][table' # table =>
          \/ reload_pc = "connected" /\ reload_pc' = "cleared" /\ table' = <<>>
          \/ reload_pc = "cleared" /\ reload_pc' = "imported"
                /\ table' = Inserts(data, "new")]_vars

\* C33 (as claimed): the clear and the inserts are committed separately, the
\* inserts once; once the script has run, the table holds all rows of the scan
\* or no row, never a part of them and never the old rows; after a fault
\* during insertion it is empty.
ReloadLeavesNewSetOrNothing ==
    /\ TwoCommits
    /\ [](reload_pc \in Quiet => (table = <<>> \/ table = Inserts(data, "new")))
    /\ [](reload_pc = "failed_insert" => table = <<>>)

\* C33 (amended): the clear and the inserts are committed separately, the
\* inserts once; once the script has committed the clear, the table holds all
\* rows of the scan or no row, never a part of them and never the old rows;
\* after a fault during insertion it is empty; a run that ends before the
\* clear is committed (nothing scanned, a fault of the clear) leaves the old
\* rows.
ReloadPastClearLeavesNewSetOrNothing ==
    /\ TwoCommits
    /\ [](reload_pc \in ClearCommitted => (table = <<>> \/ table = Inserts(data, "new")))
    /\ [](reload_pc \in InsertsCommitted => table = Inserts(data, "new"))
    /\ [](reload_pc \in {"failed_insert", "failed_commit"} => table = <<>>)
    /\ [](reload_pc \notin ClearCommitted => \A i \in 1..Len(table) : table[i].load = "old")
    /\ [][reload_pc' \notin ClearCommitted => table' = table]_vars

\* C33 witness: an INSERT raised after a part of the rows was inserted, and
\* the table is empty
ReloadPastClearLeavesNewSetOrNothingWitness ==
    /\ reload_pc = "failed_insert"
    /\ transaction # <<>>
    /\ Len(transaction) < Len(Inserts(data, "new"))
    /\ table = <<>>

====
